---- MODULE Spec2Model ----
(***************************************************************************)
(* Model of src/main.rs: the cosine similarity calcul_similarite over f32  *)
(* slices and the in-memory store Db (HashMap<Uuid, Vec<f32>>) with its    *)
(* insert and trouver_les_plus_similaires operations.                      *)
(*                                                                         *)
(* f32 values are IEEE 754 binary32 numbers, modelled bit-exactly as       *)
(* records [c, s, m, e]: class c ("fin", "inf" or "nan"), sign s (0 or 1), *)
(* and for a finite value the integer significand m and exponent e with    *)
(* value (-1)^s * m * 2^e.  Every arithmetic operation rounds to nearest,  *)
(* ties to even, overflows to infinity and underflows gradually.           *)
(***************************************************************************)
EXTENDS Integers, Sequences, FiniteSets, TLC

(***************************************************************************)
(* f32: the binary32 format                                                *)
(***************************************************************************)

\* number of significand bits of an f32 (f32::MANTISSA_DIGITS)
MANTISSA_DIGITS == 24

\* exponent of the unit in the last place of the smallest (subnormal) f32
EMin == -149

\* exponent of the unit in the last place of the largest finite f32
EMax == 104

\* 2^n for n in 0..30
Pow2(n) ==
    << 1, 2, 4, 8, 16, 32,
       64, 128, 256, 512, 1024, 2048,
       4096, 8192, 16384, 32768, 65536, 131072,
       262144, 524288, 1048576, 2097152, 4194304, 8388608,
       16777216, 33554432, 67108864, 134217728, 268435456, 536870912,
       1073741824 >>[n + 1]

\* number of bits of m, for m in 0..2^31-1
BitLen(m) ==
    IF m = 0 THEN 0
    ELSE CHOOSE k \in 1..31 : Pow2(k - 1) <= m /\ (k = 31 \/ m < Pow2(k))

Max(a, b) == IF a >= b THEN a ELSE b

Min(a, b) == IF a <= b THEN a ELSE b

Xor(a, b) == IF a = b THEN 0 ELSE 1

\* m shifted right by n bits
ShiftRight(m, n) == IF n >= 31 THEN 0 ELSE m \div Pow2(n)

\* TRUE iff a one bit is lost when m is shifted right by n bits
LostBits(m, n) == IF n >= 31 THEN m # 0 ELSE m % Pow2(n) # 0

NaN == [c |-> "nan", s |-> 0, m |-> 0, e |-> 0]

Inf(s) == [c |-> "inf", s |-> s, m |-> 0, e |-> 0]

Zero(s) == [c |-> "fin", s |-> s, m |-> 0, e |-> EMin]

Fin(s, m, e) == [c |-> "fin", s |-> s, m |-> m, e |-> e]

IsNaN(x) == x.c = "nan"

IsInf(x) == x.c = "inf"

IsZero(x) == x.c = "fin" /\ x.m = 0

\* The f32 nearest to (-1)^s * (m + f) * 2^e, where 0 <= f < 1 and f # 0 iff
\* sticky; ties go to the even significand.  Requires m >= 2^24 when sticky.
RoundPack(s, m, e, sticky) ==
    IF m = 0 /\ ~sticky THEN Zero(s)
    ELSE
    LET sh  == Max(BitLen(m) - (MANTISSA_DIGITS + 1), (EMin - 1) - e)
        m1  == IF sh >= 0 THEN ShiftRight(m, sh) ELSE m * Pow2(-sh)
        st1 == sticky \/ (sh > 0 /\ LostBits(m, sh))
        q   == m1 \div 2
        up  == (m1 % 2 = 1) /\ (st1 \/ q % 2 = 1)
        q1  == IF up THEN q + 1 ELSE q
        ovf == q1 = Pow2(MANTISSA_DIGITS)
        q2  == IF ovf THEN Pow2(MANTISSA_DIGITS - 1) ELSE q1
        e2  == IF ovf THEN e + sh + 2 ELSE e + sh + 1
    IN  IF q2 = 0 THEN Zero(s)
        ELSE IF e2 > EMax THEN Inf(s)
        ELSE Fin(s, q2, e2)

\* left shift that brings a nonzero significand into [2^23, 2^24)
NormShift(m) == MANTISSA_DIGITS - BitLen(m)

\* the 48-bit product of two 24-bit significands, as <<high 24 bits, low 24 bits>>
MulMant(a, b) ==
    LET h   == Pow2(12)
        a1  == a \div h
        a0  == a % h
        b1  == b \div h
        b0  == b % h
        mid == a1 * b0 + a0 * b1
        t   == a0 * b0 + (mid % h) * h
        w   == Pow2(MANTISSA_DIGITS)
    IN  << a1 * b1 + mid \div h + t \div w, t % w >>

\* x * y on f32
FMul(x, y) ==
    LET s == Xor(x.s, y.s) IN
    IF IsNaN(x) \/ IsNaN(y) THEN NaN
    ELSE IF IsInf(x) \/ IsInf(y)
         THEN IF IsZero(x) \/ IsZero(y) THEN NaN ELSE Inf(s)
    ELSE IF IsZero(x) \/ IsZero(y) THEN Zero(s)
    ELSE
    LET kx == NormShift(x.m)
        ky == NormShift(y.m)
        p  == MulMant(x.m * Pow2(kx), y.m * Pow2(ky))
    IN  RoundPack(s, p[1] * 32 + p[2] \div Pow2(19),
                  (x.e - kx) + (y.e - ky) + 19, p[2] % Pow2(19) # 0)

\* |x| + |y| or |x| - |y| for finite nonzero x, y with x.e >= y.e, carrying the
\* sign of the larger magnitude
AddAligned(x, y) ==
    LET d  == x.e - y.e
        g  == 5
        A  == IF d <= g THEN x.m * Pow2(d) ELSE x.m * Pow2(g)
        B  == IF d <= g THEN y.m ELSE ShiftRight(y.m, d - g)
        st == d > g /\ LostBits(y.m, d - g)
        eb == IF d <= g THEN y.e ELSE x.e - g
    IN  IF x.s = y.s THEN RoundPack(x.s, A + B, eb, st)
        ELSE IF A > B THEN RoundPack(x.s, IF st THEN A - B - 1 ELSE A - B, eb, st)
        ELSE IF A < B THEN RoundPack(y.s, B - A, eb, FALSE)
        ELSE Zero(0)

\* x + y on f32
FAdd(x, y) ==
    IF IsNaN(x) \/ IsNaN(y) THEN NaN
    ELSE IF IsInf(x) /\ IsInf(y) THEN (IF x.s = y.s THEN x ELSE NaN)
    ELSE IF IsInf(x) THEN x
    ELSE IF IsInf(y) THEN y
    ELSE IF IsZero(x) /\ IsZero(y) THEN Zero(IF x.s = y.s THEN x.s ELSE 0)
    ELSE IF IsZero(x) THEN y
    ELSE IF IsZero(y) THEN x
    ELSE IF x.e >= y.e THEN AddAligned(x, y) ELSE AddAligned(y, x)

\* seven further quotient bits of the long division by b, from the quotient
\* and remainder qr so far
DivBits(qr, b) == << 128 * qr[1] + (128 * qr[2]) \div b, (128 * qr[2]) % b >>

\* x / y on f32
FDiv(x, y) ==
    LET s == Xor(x.s, y.s) IN
    IF IsNaN(x) \/ IsNaN(y) THEN NaN
    ELSE IF IsInf(x) THEN (IF IsInf(y) THEN NaN ELSE Inf(s))
    ELSE IF IsInf(y) THEN Zero(s)
    ELSE IF IsZero(y) THEN (IF IsZero(x) THEN NaN ELSE Inf(s))
    ELSE IF IsZero(x) THEN Zero(s)
    ELSE
    LET kx == NormShift(x.m)
        ky == NormShift(y.m)
        a  == x.m * Pow2(kx)
        b  == y.m * Pow2(ky)
        q0 == << a \div b, a % b >>
        q1 == DivBits(q0, b)
        q2 == DivBits(q1, b)
        q3 == DivBits(q2, b)
        qr == DivBits(q3, b)
    IN  RoundPack(s, qr[1], (x.e - kx) - (y.e - ky) - 28, qr[2] # 0)

\* one Newton step towards the integer square root of n
SqrtNewton(n, x) == (x + n \div x) \div 2

\* <<floor(sqrt(n)), remainder>> for n in 2^23..2^25-1
SqrtInt(n) ==
    LET x1 == SqrtNewton(n, Pow2(13))
        x2 == SqrtNewton(n, x1)
        x3 == SqrtNewton(n, x2)
        x4 == SqrtNewton(n, x3)
        x5 == SqrtNewton(n, x4)
        x6 == SqrtNewton(n, x5)
        r  == IF x6 * x6 > n THEN x6 - 1
              ELSE IF (x6 + 1) * (x6 + 1) <= n THEN x6 + 1
              ELSE x6
    IN  << r, n - r * r >>

\* k further bits of a square root: from <<root, remainder>> of n to those of
\* n * 4^k
SqrtBits(rr, k) ==
    LET root == rr[1]
        rem  == rr[2] * Pow2(2 * k)
        d0   == Min(Pow2(k) - 1, (rr[2] * Pow2(k - 1)) \div root)
        d    == IF 2 * root * Pow2(k) * d0 + d0 * d0 <= rem THEN d0 ELSE d0 - 1
    IN  << root * Pow2(k) + d, rem - 2 * root * Pow2(k) * d - d * d >>

\* x.sqrt() on f32
FSqrt(x) ==
    IF IsNaN(x) THEN NaN
    ELSE IF IsZero(x) THEN x
    ELSE IF x.s = 1 THEN NaN
    ELSE IF IsInf(x) THEN x
    ELSE
    LET k   == NormShift(x.m)
        odd == (x.e - k) % 2 = 1
        n   == IF odd THEN 2 * x.m * Pow2(k) ELSE x.m * Pow2(k)
        en  == IF odd THEN x.e - k - 1 ELSE x.e - k
        sr  == SqrtBits(SqrtBits(SqrtBits(SqrtInt(n), 6), 4), 3)
    IN  RoundPack(0, sr[1], (en - 26) \div 2, sr[2] # 0)

\* a == b on f32: NaN equals nothing, the two zeros are equal
FEq(x, y) ==
    /\ ~IsNaN(x)
    /\ ~IsNaN(y)
    /\ \/ IsZero(x) /\ IsZero(y)
       \/ x = y

\* the magnitude of x is below the magnitude of y (neither is NaN)
MagLess(x, y) ==
    IF IsInf(y) THEN ~IsInf(x)
    ELSE IF IsInf(x) THEN FALSE
    ELSE x.e < y.e \/ (x.e = y.e /\ x.m < y.m)

\* a < b on f32
FLt(x, y) ==
    /\ ~IsNaN(x)
    /\ ~IsNaN(y)
    /\ ~FEq(x, y)
    /\ IF x.s # y.s THEN x.s = 1
       ELSE IF x.s = 0 THEN MagLess(x, y)
       ELSE MagLess(y, x)

\* a.partial_cmp(b) on f32; "None" when a or b is NaN
partial_cmp(x, y) ==
    IF IsNaN(x) \/ IsNaN(y) THEN "None"
    ELSE IF FEq(x, y) THEN "Equal"
    ELSE IF FLt(x, y) THEN "Less"
    ELSE "Greater"

(***************************************************************************)
(* calcul_similarite                                                       *)
(***************************************************************************)

\* the f32 literals 0.0 and 1.0, and further finite f32 values: -2.0,
\* 2^64 (its square overflows) and 2^-75 (its square underflows to 0.0)
F0 == Zero(0)

F1 == Fin(0, Pow2(MANTISSA_DIGITS - 1), 1 - MANTISSA_DIGITS)

FNeg2 == Fin(1, Pow2(MANTISSA_DIGITS - 1), 2 - MANTISSA_DIGITS)

FBig == Fin(0, Pow2(MANTISSA_DIGITS - 1), 65 - MANTISSA_DIGITS)

FTiny == Fin(0, Pow2(MANTISSA_DIGITS - 1), -74 - MANTISSA_DIGITS)

\* Iterator::sum::<f32>() of the first k elements of v: a left fold of + from 0.0
RECURSIVE sum_prefix(_, _)
sum_prefix(v, k) == IF k = 0 THEN F0 ELSE FAdd(sum_prefix(v, k - 1), v[k])

sum(v) == sum_prefix(v, Len(v))

\* vec1.iter().zip(vec2): pairs up to the end of the shorter slice
zip(vec1, vec2) ==
    [i \in 1..Min(Len(vec1), Len(vec2)) |-> << vec1[i], vec2[i] >>]

\* .map(|(a, b)| a * b) over a sequence of pairs
map_mul(pairs) == [i \in 1..Len(pairs) |-> FMul(pairs[i][1], pairs[i][2])]

\* vec.iter().map(|x| x * x).sum::<f32>().sqrt()
norme(vec) == FSqrt(sum([i \in 1..Len(vec) |-> FMul(vec[i], vec[i])]))

\* the similarity without its zero-norm branch
calcul_similarite_sans_garde(vec1, vec2) ==
    FDiv(sum(map_mul(zip(vec1, vec2))), FMul(norme(vec1), norme(vec2)))

\* the similarity dividing by the first norm twice
calcul_similarite_norme1(vec1, vec2) ==
    LET produit == sum(map_mul(zip(vec1, vec2)))
        n1      == norme(vec1)
        n2      == norme(vec2)
    IN  IF FEq(n1, F0) \/ FEq(n2, F0) THEN F0
        ELSE FDiv(produit, FMul(n1, n1))

\* the similarity of the two slices cut to their common length
calcul_similarite_tronque(vec1, vec2) ==
    LET k       == Min(Len(vec1), Len(vec2))
        produit == sum(map_mul(zip(vec1, vec2)))
        n1      == norme(SubSeq(vec1, 1, k))
        n2      == norme(SubSeq(vec2, 1, k))
    IN  IF FEq(n1, F0) \/ FEq(n2, F0) THEN F0
        ELSE FDiv(produit, FMul(n1, n2))

calcul_similarite(vec1, vec2) ==
    LET produit == sum(map_mul(zip(vec1, vec2)))
        n1      == norme(vec1)
        n2      == norme(vec2)
    IN  IF FEq(n1, F0) \/ FEq(n2, F0) THEN F0
        ELSE FDiv(produit, FMul(n1, n2))

(***************************************************************************)
(* Bounds and inputs                                                       *)
(***************************************************************************)

\* number of distinct identifiers the callers use
NumUuids == 3

\* largest result count n asked of a query
MaxN == 3

\* longest slice handed to calcul_similarite on its own
MaxDim == 2

Uuids == 1..NumUuids

\* embeddings the callers insert: the unit vectors, their sum, a vector whose
\* norm overflows, and a zero vector of another dimension
EmbeddingPool ==
    { << F1, F0 >>, << F0, F1 >>, << F1, F1 >>, << FBig, F0 >>, << F0 >> }

\* query vectors
QueryPool == { << F1, F0 >>, << FBig, F0 >> }

\* component values of the slices handed to calcul_similarite on its own
SimVals == { F0, F1, FNeg2, FBig, FTiny }

RECURSIVE SeqsOfLen(_, _)
SeqsOfLen(S, k) ==
    IF k = 0 THEN { << >> }
    ELSE { Append(v, x) : v \in SeqsOfLen(S, k - 1), x \in S }

Vectors == UNION { SeqsOfLen(SimVals, k) : k \in 0..MaxDim }

\* calcul_similarite tabulated over the store's inputs
Similarites ==
    [q \in QueryPool, e \in EmbeddingPool |-> calcul_similarite(q, e)] @@ << >>

(***************************************************************************)
(* State                                                                   *)
(***************************************************************************)

VARIABLES
    inner,   \* Db.inner: the HashMap, a set of <<uuid, embedding>> entries
    last,    \* history: for each uuid ever inserted, the embedding last passed
    call,    \* the latest call on the Db, its arguments, and for an insert
             \* the Option that HashMap::insert returned (old: {} is None)
    ret,     \* what the latest call returned (<<>> for new and insert)
    sim_vec1,    \* calcul_similarite's first argument
    sim_vec2,    \* calcul_similarite's second argument
    sim,     \* calcul_similarite's return value
    pc       \* position of the calcul_similarite caller

vars == << inner, last, call, ret, sim_vec1, sim_vec2, sim, pc >>

NoUuid == "none"

Call(op, uuid, vec, n, old) ==
    [op |-> op, uuid |-> uuid, vec |-> vec, n |-> n, old |-> old]

(***************************************************************************)
(* Db                                                                      *)
(***************************************************************************)

\* HashMap::new()
HashMapNew == {}

\* HashMap::get(uuid) as a set: {} for None, {embedding} for Some(embedding)
HashMapGet(map, uuid) == { p[2] : p \in { r \in map : r[1] = uuid } }

\* HashMap::insert: an entry that keeps the value of a key already present
HashMapInsert_garde(map, uuid, embedding) ==
    IF \E p \in map : p[1] = uuid THEN map ELSE map \cup { << uuid, embedding >> }

\* HashMap::insert: a map rebuilt from the one new entry
HashMapInsert_seul(map, uuid, embedding) == { << uuid, embedding >> }

\* HashMap::insert(uuid, embedding): the entry of an existing key is replaced
HashMapInsert(map, uuid, embedding) ==
    { p \in map : p[1] # uuid } \cup { << uuid, embedding >> }

\* HashMap::iter(): the entries, each once, in an arbitrary order
RECURSIVE HashMapIter(_)
HashMapIter(map) ==
    IF map = {} THEN { << >> }
    ELSE UNION { { << p >> \o rest : rest \in HashMapIter(map \ { p }) } : p \in map }

\* the scan scoring the query against itself instead of each embedding
similarities_requete(order, query) ==
    [i \in 1..Len(order) |-> << order[i][1], Similarites[query, query] >>]

\* .map(|(uuid, embedding)| (*uuid, calcul_similarite(query, embedding))).collect()
similarities(order, query) ==
    [i \in 1..Len(order) |-> << order[i][1], Similarites[query, order[i][2]] >>]

\* the closure with its operands exchanged: an ascending sort
compare_croissant(a, b) ==
    LET o == partial_cmp(a[2], b[2]) IN IF o = "None" THEN "Equal" ELSE o

\* the sort_by closure: b.1.partial_cmp(&a.1).unwrap_or(Ordering::Equal)
compare(a, b) ==
    LET o == partial_cmp(b[2], a[2]) IN IF o = "None" THEN "Equal" ELSE o

is_less(a, b) == compare(a, b) = "Less"

\* one step of the insertion sort: x enters the sorted sequence v from the right
\* and moves left past every element it is less than
RECURSIVE insert_tail(_, _)
insert_tail(v, x) ==
    IF v = << >> THEN << x >>
    ELSE IF is_less(x, v[Len(v)])
         THEN Append(insert_tail(SubSeq(v, 1, Len(v) - 1), x), v[Len(v)])
         ELSE Append(v, x)

\* the scan's order kept as it is
sort_by_absent(v) == v

\* slice::sort_by on the first k elements (a stable insertion sort, which is
\* what the standard library runs on slices of at most 20 elements)
RECURSIVE sort_prefix(_, _)
sort_prefix(v, k) ==
    IF k = 0 THEN << >> ELSE insert_tail(sort_prefix(v, k - 1), v[k])

sort_by(v) == sort_prefix(v, Len(v))

\* take with its count off by one
take_un_de_plus(v, n) == SubSeq(v, 1, Min(n + 1, Len(v)))

\* .into_iter().take(n).collect()
take(v, n) == SubSeq(v, 1, Min(n, Len(v)))

\* Db::new()
New ==
    /\ inner = HashMapNew
    /\ last = << >>
    /\ call = Call("new", NoUuid, << >>, 0, {})
    /\ ret = << >>

\* Db::insert(uuid, embedding)
insert(uuid, embedding) ==
    /\ inner' = HashMapInsert(inner, uuid, embedding)
    /\ last' = [u \in DOMAIN last \cup { uuid } |->
                   IF u = uuid THEN embedding ELSE last[u]]
    /\ call' = Call("insert", uuid, embedding, 0, HashMapGet(inner, uuid))
    /\ ret' = << >>
    /\ UNCHANGED << sim_vec1, sim_vec2, sim, pc >>

\* a query that drains the map it scans
trouver_les_plus_similaires_drain(query, n) ==
    /\ \E order \in HashMapIter(inner) :
           ret' = take(sort_by(similarities(order, query)), n)
    /\ inner' = HashMapNew
    /\ call' = Call("query", NoUuid, query, n, {})
    /\ UNCHANGED << last, sim_vec1, sim_vec2, sim, pc >>

\* Db::trouver_les_plus_similaires(query, n)
trouver_les_plus_similaires(query, n) ==
    /\ \E order \in HashMapIter(inner) :
           ret' = take(sort_by(similarities(order, query)), n)
    /\ call' = Call("query", NoUuid, query, n, {})
    /\ UNCHANGED << inner, last, sim_vec1, sim_vec2, sim, pc >>

Insert == \E uuid \in Uuids, embedding \in EmbeddingPool : insert(uuid, embedding)

Query == \E query \in QueryPool, n \in 0..MaxN : trouver_les_plus_similaires(query, n)

Init ==
    /\ New
    /\ sim_vec1 = << >>
    /\ sim_vec2 = << >>
    /\ sim = F0
    /\ pc = "idle"

Next == Insert \/ Query

Spec == Init /\ [][Next]_vars

(***************************************************************************)
(* calcul_similarite called on its own                                     *)
(***************************************************************************)

InitSim ==
    /\ New
    /\ sim_vec1 \in Vectors
    /\ sim_vec2 \in Vectors
    /\ sim = F0
    /\ pc = "call"

Calcul ==
    /\ pc = "call"
    /\ sim' = calcul_similarite(sim_vec1, sim_vec2)
    /\ pc' = "done"
    /\ UNCHANGED << inner, last, call, ret, sim_vec1, sim_vec2 >>

NextSim == Calcul

SpecSim == InitSim /\ [][NextSim]_vars

(***************************************************************************)
(* Properties                                                              *)
(***************************************************************************)

Keys(map) == { p[1] : p \in map }

\* a >= b and a <= b on f32
FGe(x, y) == FLt(y, x) \/ FEq(x, y)

FLe(x, y) == FLt(x, y) \/ FEq(x, y)

IsQuery == call.op = "query"

ResultIds == { ret[i][1] : i \in 1..Len(ret) }

\* no score of a stored embedding against the latest query is NaN
ScoresComparable == \A p \in inner : ~IsNaN(Similarites[call.vec, p[2]])

\* C1: after any sequence of inserts the store holds exactly one entry for each
\* identifier ever inserted, carrying the embedding of the latest insert for
\* it; an insert under a key already present is always possible and leaves
\* the number of entries at the number of distinct identifiers.
C1_LastWriteWins ==
    /\ Keys(inner) = DOMAIN last
    /\ \A u \in DOMAIN last : { p \in inner : p[1] = u } = { << u, last[u] >> }
    /\ Cardinality(inner) = Cardinality(DOMAIN last)
    /\ \A u \in Keys(inner), e \in EmbeddingPool : ENABLED insert(u, e)

\* an insert has replaced a different embedding and the store holds two entries
C1_Witness ==
    /\ call.op = "insert"
    /\ call.old # {}
    /\ call.old # { call.vec }
    /\ Cardinality(inner) = 2

\* C2: a query for n results on a store of N entries returns exactly
\* min(n, N) pairs: none for n = 0 or an empty store, all N for n > N.  (The
\* query action has no guard: it is taken from every state with every input.)
C2_TopKLength == IsQuery => Len(ret) = Min(call.n, Cardinality(inner))

\* a query asked for more results than the two entries the store holds
C2_Witness ==
    /\ IsQuery
    /\ Cardinality(inner) = 2
    /\ call.n > 2
    /\ Len(ret) = 2

\* C3: when the returned scores are comparable (none is NaN), they are in
\* non-increasing order.
C3_Descending ==
    (IsQuery /\ \A i \in 1..Len(ret) : ~IsNaN(ret[i][2]))
        => \A i \in 1..(Len(ret) - 1) : FGe(ret[i][2], ret[i + 1][2])

\* a query returned three comparable scores, not all equal
C3_Witness ==
    /\ IsQuery
    /\ Len(ret) = 3
    /\ \A i \in 1..3 : ~IsNaN(ret[i][2])
    /\ FLt(ret[3][2], ret[1][2])

C5_QueryFrame == [][call'.op = "query" => inner' = inner]_vars

\* a query has returned results from a store that still holds its two entries
C5_Witness ==
    /\ IsQuery
    /\ Len(ret) = 2
    /\ Cardinality(inner) = 2
    /\ Keys(inner) = DOMAIN last

\* C6: calcul_similarite returns exactly 0.0 whenever the norm of either
\* argument is zero.
C6_ZeroNorm ==
    (pc = "done" /\ (FEq(norme(sim_vec1), F0) \/ FEq(norme(sim_vec2), F0)))
        => sim = F0

\* calcul_similarite has returned for two all-zero vectors
C6_Witness ==
    /\ pc = "done"
    /\ sim_vec1 = << F0, F0 >>
    /\ sim_vec2 = << F0, F0 >>
    /\ sim = F0

C8_NeverRemoved ==
    /\ inner = {}
    /\ [][/\ Keys(inner) \subseteq Keys(inner')
          /\ Cardinality(inner) <= Cardinality(inner')]_vars

\* an insert has overwritten one of three entries
C8_Witness ==
    /\ call.op = "insert"
    /\ call.old # {}
    /\ Cardinality(inner) = 3

\* C9: every returned pair names a key of the store with the similarity of
\* the query to the embedding now stored under it, and no key is returned
\* twice.
C9_ResultsFromStore ==
    IsQuery =>
        /\ \A i \in 1..Len(ret) :
               \E p \in inner :
                   /\ p[1] = ret[i][1]
                   /\ ret[i][2] = Similarites[call.vec, p[2]]
        /\ \A i, j \in 1..Len(ret) : ret[i][1] = ret[j][1] => i = j

\* a query returned two pairs with different scores
C9_Witness ==
    /\ IsQuery
    /\ Len(ret) = 2
    /\ ret[1][2] # ret[2][2]
    /\ Keys(inner) = { ret[1][1], ret[2][1] }

\* C10: for slices of different lengths calcul_similarite returns the sum of
\* the products of the first min(len, len) components divided by the product
\* of the two norms, each norm taken over the whole of its slice (0.0 when a
\* norm is zero).
C10_MismatchedLengths ==
    (pc = "done" /\ Len(sim_vec1) # Len(sim_vec2)) =>
        LET k   == Min(Len(sim_vec1), Len(sim_vec2))
            dot == sum([i \in 1..k |-> FMul(sim_vec1[i], sim_vec2[i])])
            n1  == FSqrt(sum([i \in 1..Len(sim_vec1) |->
                                 FMul(sim_vec1[i], sim_vec1[i])]))
            n2  == FSqrt(sum([i \in 1..Len(sim_vec2) |->
                                 FMul(sim_vec2[i], sim_vec2[i])]))
        IN  sim = IF FEq(n1, F0) \/ FEq(n2, F0) THEN F0
                  ELSE FDiv(dot, FMul(n1, n2))

\* calcul_similarite([1], [1, 1]) has returned 0.70710677, not the 1.0 of the
\* common prefix
C10_Witness ==
    /\ pc = "done"
    /\ sim_vec1 = << F1 >>
    /\ sim_vec2 = << F1, F1 >>
    /\ sim = Fin(0, 11863283, -24)
====
